---- MODULE Spec2Model ----
(***************************************************************************)
(* Model of src/main.py: the code-fixer pipeline                           *)
(*   probe server -> read file -> POST analysis -> print report ->         *)
(*   prompt -> rename to backup -> open for write -> write fixed code.     *)
(* The file system persists across consecutive runs of the program; all    *)
(* other state is per run.                                                 *)
(***************************************************************************)
EXTENDS Integers, Sequences, FiniteSets, TLC

\* ---------------------------------------------------------------- bounds
MaxRuns == 2          \* consecutive invocations of the program
MaxTime == 3          \* wall clock, in ticks
MaxInputLen == 2      \* characters typed at the confirmation prompt
TicksPerSecond == 2   \* resolution of the modelled clock

\* ------------------------------------------------------------- constants
Statuses == {200, 404, 500}   \* HTTP status codes a server may answer with
BASE_URL == "http://localhost:1234/v1"
filename == "t.py"            \* sys.argv[1], the same in every run
Absent == "<absent>"          \* no file at that path
Empty == ""                   \* a file truncated by open(..., "w")
Contents == {"c0", "c1", "c2"}
Whitespace == {" "}
Alphabet == {"y", "Y", "n", " "}

Required == {"fixed_code", "explanation", "language", "error_type"}
Fields == Required \cup {"original_code"}

\* ------------------------------------------------------------ file names
\* time.strftime('%Y%m%d%H%M%S'): the clock truncated to whole seconds
strftime(t) == t \div TicksPerSecond

Target == <<filename>>
\* f"{filename}.{stamp}.bak"
backup_name(f, t) == <<f, strftime(t), "bak">>
Backups == {backup_name(filename, t) : t \in 0..MaxTime}
Paths == {Target} \cup Backups

\* ---------------------------------------------------------- str methods
RECURSIVE lstrip(_)
lstrip(s) == IF s # <<>> /\ Head(s) \in Whitespace THEN lstrip(Tail(s)) ELSE s

RECURSIVE rstrip(_)
rstrip(s) == IF s # <<>> /\ s[Len(s)] \in Whitespace
             THEN rstrip(SubSeq(s, 1, Len(s) - 1)) ELSE s

strip(s) == rstrip(lstrip(s))

lower(s) == [i \in DOMAIN s |-> IF s[i] = "Y" THEN "y" ELSE s[i]]

\* input(...).strip().lower()
confirmation_of(s) == lower(strip(s))

\* variant: confirmation.startswith('y') instead of the equality test
accepted_Prefix(s) == confirmation_of(s) # <<>> /\ Head(confirmation_of(s)) = "y"

\* confirmation != 'y' is the decline branch
accepted(s) == confirmation_of(s) = <<"y">>

Inputs == UNION {[1..n -> Alphabet] : n \in 0..MaxInputLen}

\* ------------------------------------------------------- server answers
\* the decoded message content: a dict with any subset of the fields
FieldValue(k, code) ==
    CASE k = "fixed_code" -> code
      [] k = "original_code" -> "c0"
      [] k = "language" -> "python"
      [] k = "error_type" -> "SyntaxError"
      [] OTHER -> "because"

Dicts == {[k \in ks |-> FieldValue(k, code)] : ks \in SUBSET Fields, code \in Contents}
EmptyDict == [k \in {} |-> ""]

\* an HTTP exchange either raises (requests.RequestException) or answers
ProbeAnswers ==
    {[raised |-> TRUE, status |-> 0]}
    \cup {[raised |-> FALSE, status |-> st] : st \in Statuses}

\* kind: "garbage" json.loads raises, "scalar" parses to a non-dict, "object" a dict
Responses ==
    {[raised |-> TRUE, status |-> 0, text |-> "", kind |-> "garbage", dict |-> EmptyDict]}
    \cup {[raised |-> FALSE, status |-> st, text |-> "oops", kind |-> "garbage",
            dict |-> EmptyDict] : st \in Statuses \ {200}}
    \cup {[raised |-> FALSE, status |-> 200, text |-> "body", kind |-> k,
            dict |-> EmptyDict] : k \in {"garbage", "scalar"}}
    \cup {[raised |-> FALSE, status |-> 200, text |-> "body", kind |-> "object",
            dict |-> d] : d \in Dicts}
NoResponse == [raised |-> FALSE, status |-> 0, text |-> "", kind |-> "garbage",
               dict |-> EmptyDict]

\* what the environment did, as recorded in the trace
HttpOutcome(r) == IF r.raised THEN "raise" ELSE IF r.status = 200 THEN "200" ELSE "non200"
IoOutcome(ok) == IF ok THEN "ok" ELSE "raise"

\* --------------------------------------------------------------- output
Line(tag, val, code) == [tag |-> tag, val |-> val, code |-> code]

\* ---------------------------------------------------------------- state
VARIABLES
    pc,        \* position of main in the current run
    run,       \* number of the current invocation
    now,       \* wall clock, in ticks
    fs,        \* file system: path -> content
    argc,      \* len(sys.argv)
    content,   \* text read from the target file
    resp,      \* the answer to the chat-completions POST
    fix,       \* the parsed analysis result
    answer,    \* raw text typed at the prompt
    backup_filename, \* name computed by validate_and_save
    stdout,    \* lines printed in this run
    exit,      \* exit status of this run: 0 unless sys.exit(1) is called
    trace,     \* external operations of this run, in order
    pre,       \* file system at the start of this run
    last       \* what the previous run saved: its backup name and the content before it

vars == <<pc, run, now, fs, argc, content, resp, fix, answer, backup_filename,
          stdout, exit, trace, pre, last>>

NoName == <<>>
NoFix == [kind |-> "none", dict |-> EmptyDict]
NoSave == [saved |-> FALSE, backup |-> NoName, before |-> Absent]

Op(op, res) == [op |-> op, res |-> res]

Init ==
    /\ pc = "probe"
    /\ run = 1
    /\ now = 0
    /\ fs = [p \in Paths |-> IF p = Target THEN "c0" ELSE Absent]
    /\ argc \in {1, 2}
    /\ content = Empty
    /\ resp = NoResponse
    /\ fix = NoFix
    /\ answer = <<>>
    /\ backup_filename = NoName
    /\ stdout = <<>>
    /\ exit = 0
    /\ trace = <<>>
    /\ pre = fs
    /\ last = NoSave

\* print(msg); sys.exit(1)
Die(line) ==
    /\ stdout' = Append(stdout, line)
    /\ exit' = 1
    /\ pc' = "done"

\* ------------------------------------------------ check_server_available
\* variant: any answer counts as available, the status is not compared
check_server_available_AnyAnswer(r) == ~r.raised

check_server_available(r) == ~r.raised /\ r.status = 200

\* main, lines 102-108: the probe, then the argument check
Probe ==
    /\ pc = "probe"
    /\ \E r \in ProbeAnswers :
        /\ trace' = Append(trace, Op("GET", HttpOutcome(r)))
        /\ IF ~check_server_available(r)
           THEN Die(Line("LM Studio server not available", BASE_URL, 0))
           ELSE IF argc < 2
           THEN Die(Line("Usage: codefixer.py <filename>", "", 0))
           ELSE /\ pc' = "read"
                /\ UNCHANGED <<stdout, exit>>
    /\ UNCHANGED <<run, now, fs, argc, content, resp, fix, answer, backup_filename, pre, last>>

\* main, lines 110-116: open(filename, "r") and f.read()
ReadFile ==
    /\ pc = "read"
    /\ \E ok \in BOOLEAN :
        /\ ok => fs[Target] # Absent
        /\ trace' = Append(trace, Op("read", IoOutcome(ok)))
        /\ IF ok
           THEN /\ content' = fs[Target]
                /\ pc' = "post"
                /\ UNCHANGED <<stdout, exit>>
           ELSE /\ Die(Line("Error reading file", "", 0))
                /\ UNCHANGED content
    /\ UNCHANGED <<run, now, fs, argc, resp, fix, answer, backup_filename, pre, last>>

\* ------------------------------------------------- analyze_and_fix_code
\* variant: only 5xx answers are rejected before decoding
analyze_and_fix_code_Lenient(r) ==
    IF r.raised
    THEN [raised |-> TRUE, err |-> Line("Error fixing code: connection", "", 0), value |-> NoFix]
    ELSE IF r.status >= 500
    THEN [raised |-> TRUE,
          err |-> Line("Error fixing code: API request failed", r.text, r.status),
          value |-> NoFix]
    ELSE IF r.kind = "garbage"
    THEN [raised |-> TRUE, err |-> Line("Error fixing code: JSON", "", 0), value |-> NoFix]
    ELSE [raised |-> FALSE, err |-> Line("", "", 0),
          value |-> [kind |-> r.kind, dict |-> r.dict]]

\* lines 77-82: the value returned, or the exception raised
analyze_and_fix_code(r) ==
    IF r.raised
    THEN [raised |-> TRUE, err |-> Line("Error fixing code: connection", "", 0), value |-> NoFix]
    ELSE IF r.status # 200
    THEN [raised |-> TRUE,
          err |-> Line("Error fixing code: API request failed", r.text, r.status),
          value |-> NoFix]
    ELSE IF r.kind = "garbage"
    THEN [raised |-> TRUE, err |-> Line("Error fixing code: JSON", "", 0), value |-> NoFix]
    ELSE [raised |-> FALSE, err |-> Line("", "", 0),
          value |-> [kind |-> r.kind, dict |-> r.dict]]

\* main, line 119: the single POST and its decoding
Analyze ==
    /\ pc = "post"
    /\ \E r \in Responses :
        /\ resp' = r
        /\ trace' = Append(trace, Op("POST", HttpOutcome(r)))
        /\ LET res == analyze_and_fix_code(r) IN
           IF res.raised
           THEN /\ Die(res.err)
                /\ UNCHANGED fix
           ELSE /\ fix' = res.value
                /\ pc' = "report"
                /\ UNCHANGED <<stdout, exit>>
    /\ UNCHANGED <<run, now, fs, argc, content, answer, backup_filename, pre, last>>

\* --------------------------------------------------------------- report
\* the subscripts of lines 121-128, in the order they are evaluated
ReportKeys == <<"language", "error_type", "original_code", "fixed_code", "explanation">>
\* the label printed on a line of its own before the value, if any
LabelOf(k) ==
    CASE k = "original_code" -> "Original Code:"
      [] k = "fixed_code" -> "Fixed Code:"
      [] k = "explanation" -> "Explanation:"
      [] OTHER -> ""

\* the prints of lines 121-128 from the i-th subscript on; a missing key
\* raises KeyError and ends the output
RECURSIVE PrintFrom(_, _)
PrintFrom(d, i) ==
    IF i > Len(ReportKeys) THEN [raised |-> FALSE, lines |-> <<>>, key |-> ""]
    ELSE LET k == ReportKeys[i]
             label == IF LabelOf(k) = "" THEN <<>> ELSE <<Line("label", LabelOf(k), 0)>>
         IN IF k \notin DOMAIN d
            THEN [raised |-> TRUE, lines |-> label, key |-> k]
            ELSE LET rest == PrintFrom(d, i + 1)
                 IN [raised |-> rest.raised,
                     lines |-> label \o <<Line(k, d[k], 0)>> \o rest.lines,
                     key |-> rest.key]

\* variant: fix.get(key) everywhere, absent keys are skipped and nothing raises
Report_Tolerant(f) ==
    [raised |-> FALSE,
     lines |-> <<Line("label", "=== Code Fix Report ===", 0)>>
               \o SelectSeq([i \in 1..Len(ReportKeys) |->
                                Line(ReportKeys[i],
                                     IF ReportKeys[i] \in DOMAIN f.dict
                                     THEN f.dict[ReportKeys[i]] ELSE "", 0)],
                            LAMBDA l : l.tag \in DOMAIN f.dict),
     key |-> ""]

\* lines 120-128 for a parsed result
Report(f) ==
    LET header == <<Line("label", "=== Code Fix Report ===", 0)>>
    IN IF f.kind # "object"
       THEN [raised |-> TRUE, lines |-> header, key |-> "TypeError"]
       ELSE LET r == PrintFrom(f.dict, 1)
            IN [raised |-> r.raised, lines |-> header \o r.lines, key |-> r.key]

\* main, lines 120-128
PrintReport ==
    /\ pc = "report"
    /\ LET r == Report(fix) IN
       IF r.raised
       THEN /\ stdout' = stdout \o r.lines \o <<Line("Error fixing code: key", r.key, 0)>>
            /\ exit' = 1
            /\ pc' = "done"
       ELSE /\ stdout' = stdout \o r.lines
            /\ pc' = "prompt"
            /\ UNCHANGED exit
    /\ UNCHANGED <<run, now, fs, argc, content, resp, fix, answer, backup_filename,
                   trace, pre, last>>

\* ----------------------------------------------------- validate_and_save
\* lines 86-89: the prompt; input() raises EOFError on a closed stdin
Prompt ==
    /\ pc = "prompt"
    /\ \/ /\ trace' = Append(trace, Op("input", "raise"))
          /\ Die(Line("Error fixing code: EOF", "", 0))
          /\ UNCHANGED answer
       \/ \E a \in Inputs :
            /\ answer' = a
            /\ trace' = Append(trace, Op("input", "ok"))
            /\ IF accepted(a)
               THEN /\ pc' = "rename"
                    /\ UNCHANGED <<stdout, exit>>
               ELSE /\ stdout' = Append(stdout, Line("Operation cancelled.", "", 0))
                    /\ pc' = "done"
                    /\ UNCHANGED exit
    /\ UNCHANGED <<run, now, fs, argc, content, resp, fix, backup_filename, pre, last>>

\* variant: the target is opened for writing before it is renamed
rename_Truncating(f, src, dst) == [f EXCEPT ![dst] = Empty, ![src] = Absent]

\* os.rename(src, dst) when it succeeds: dst is replaced, src is gone
rename(f, src, dst) == [f EXCEPT ![dst] = f[src], ![src] = Absent]

\* variant: a failed rename is swallowed and the write goes ahead
Rename_Swallow ==
    /\ pc = "rename"
    /\ backup_filename' = backup_name(filename, now)
    /\ \E ok \in BOOLEAN :
        /\ ok => fs[Target] # Absent
        /\ trace' = Append(trace, Op("rename", IoOutcome(ok)))
        /\ fs' = IF ok THEN [fs EXCEPT ![backup_filename'] = fs[Target], ![Target] = Absent]
                       ELSE fs
        /\ stdout' = Append(stdout, Line("Backup saved to", "", strftime(now)))
        /\ pc' = "open"
        /\ UNCHANGED exit
    /\ UNCHANGED <<run, now, argc, content, resp, fix, answer, pre, last>>

\* lines 91-93: the backup name from the clock, then the rename
Rename ==
    /\ pc = "rename"
    /\ backup_filename' = backup_name(filename, now)
    /\ \E ok \in BOOLEAN :
        /\ ok => fs[Target] # Absent
        /\ trace' = Append(trace, Op("rename", IoOutcome(ok)))
        /\ IF ok
           THEN /\ fs' = rename(fs, Target, backup_filename')
                /\ stdout' = Append(stdout, Line("Backup saved to", "", strftime(now)))
                /\ pc' = "open"
                /\ UNCHANGED exit
           ELSE /\ Die(Line("Error fixing code: rename", "", 0))
                /\ UNCHANGED fs
    /\ UNCHANGED <<run, now, argc, content, resp, fix, answer, pre, last>>

\* open(path, "w") when it succeeds: the file exists and is empty
open_w(f, p) == [f EXCEPT ![p] = Empty]

\* line 95: open(filename, "w")
OpenForWrite ==
    /\ pc = "open"
    /\ \E ok \in BOOLEAN :
        /\ trace' = Append(trace, Op("open_w", IoOutcome(ok)))
        /\ IF ok
           THEN /\ fs' = open_w(fs, Target)
                /\ pc' = "write"
                /\ UNCHANGED <<stdout, exit>>
           ELSE /\ Die(Line("Error fixing code: open", "", 0))
                /\ UNCHANGED fs
    /\ UNCHANGED <<run, now, argc, content, resp, fix, answer, backup_filename, pre, last>>

\* variant: the data never reaches the file
write_Dropped(f, p, data) == f

\* f.write(data) and the close at the end of the with block
write(f, p, data) == [f EXCEPT ![p] = data]

\* lines 96-98: f.write(fix["fixed_code"]), close, the success message
WriteFixed ==
    /\ pc = "write"
    /\ \E ok \in BOOLEAN :
        /\ trace' = Append(trace, Op("write", IoOutcome(ok)))
        /\ IF ok
           THEN /\ fs' = write(fs, Target, fix.dict["fixed_code"])
                /\ stdout' = Append(stdout, Line("Update successful!", "", 0))
                /\ pc' = "done"
                /\ UNCHANGED exit
           ELSE /\ Die(Line("Error fixing code: write", "", 0))
                /\ UNCHANGED fs
    /\ UNCHANGED <<run, now, argc, content, resp, fix, answer, backup_filename, pre, last>>

\* ------------------------------------------------------------ environment
\* the program is invoked again on the same file
NextRun ==
    /\ pc = "done"
    /\ run < MaxRuns
    /\ run' = run + 1
    /\ pc' = "probe"
    /\ argc' \in {1, 2}
    /\ content' = Empty
    /\ resp' = NoResponse
    /\ fix' = NoFix
    /\ answer' = <<>>
    /\ backup_filename' = NoName
    /\ stdout' = <<>>
    /\ exit' = 0
    /\ trace' = <<>>
    /\ pre' = fs
    /\ last' = [saved |-> Op("write", "ok") \in {trace[i] : i \in DOMAIN trace},
                backup |-> backup_filename,
                before |-> pre[Target]]
    /\ UNCHANGED <<now, fs>>

\* the wall clock advances while a run is in progress
Tick ==
    /\ pc # "done"
    /\ now < MaxTime
    /\ now' = now + 1
    /\ UNCHANGED <<pc, run, fs, argc, content, resp, fix, answer, backup_filename,
                   stdout, exit, trace, pre, last>>

Next ==
    \/ Probe
    \/ ReadFile
    \/ Analyze
    \/ PrintReport
    \/ Prompt
    \/ Rename
    \/ OpenForWrite
    \/ WriteFixed
    \/ NextRun
    \/ Tick

Spec == Init /\ [][Next]_vars

\* ======================================================== properties
Has(op, res) == \E i \in DOMAIN trace : trace[i] = Op(op, res)
Did(op) == \E i \in DOMAIN trace : trace[i].op = op
Count(op) == Cardinality({i \in DOMAIN trace : trace[i].op = op})
Printed(tag, val) == \E i \in DOMAIN stdout : stdout[i].tag = tag /\ stdout[i].val = val
FilesUntouched == fs = pre /\ ~Did("rename") /\ ~Did("open_w") /\ ~Did("write")

\* the typed text is one "y" or "Y", possibly surrounded by whitespace
IsYes(s) ==
    \E i \in DOMAIN s :
        /\ s[i] \in {"y", "Y"}
        /\ \A j \in DOMAIN s : j # i => s[j] = " "

\* the decoded content has every required field
ValidResult(r) == r.kind = "object" /\ Required \subseteq DOMAIN r.dict

\* C1: a run whose prompt was answered affirmatively and whose rename and
\* write succeeded ends with exactly one backup made (one rename, no other
\* backup path changed), the backup holding the content the target had before
\* the run, and the target holding fixed_code.
C1_BackupThenFixed ==
    (pc = "done" /\ Has("input", "ok") /\ Has("rename", "ok") /\ Has("write", "ok")) =>
        /\ Count("rename") = 1
        /\ fs[backup_filename] = pre[Target]
        /\ \A p \in Backups : p # backup_filename => fs[p] = pre[p]
        /\ fs[Target] = fix.dict["fixed_code"]

C1_Witness ==
    /\ pc = "done"
    /\ Has("rename", "ok")
    /\ Has("write", "ok")
    /\ fs[Target] # pre[Target]
    /\ fs[Target] = "c1"

\* C2 as stated: every input other than exactly "y" or "Y" leaves the files
\* untouched.
C2_AsStated ==
    (Has("input", "ok") /\ answer \notin {<<"y">>, <<"Y">>}) => FilesUntouched

\* C2 amended: every input that is not "y" or "Y" once surrounding whitespace
\* is removed leaves the target unchanged, with no rename, no write and no
\* backup file.
C2_DeclineLeavesFiles ==
    (Has("input", "ok") /\ ~IsYes(answer)) => FilesUntouched

C2_Witness ==
    /\ pc = "done"
    /\ Has("input", "ok")
    /\ answer = <<" ", "n">>
    /\ Printed("Operation cancelled.", "")

\* C3: after two consecutive accepted runs whose backups carry the same
\* timestamp, the content the file had before the first run is still in some
\* backup file.
C3_NoClobber ==
    (/\ pc = "done"
     /\ last.saved
     /\ Has("rename", "ok")
     /\ Has("write", "ok")
     /\ backup_filename = last.backup) =>
        \E p \in Backups : fs[p] = last.before

\* C4: for a result with the four required fields the report prints the four
\* values and the run goes on to the prompt, with or without original_code.
C4_ReportToleratesOptional ==
    (ValidResult(fix) /\ pc # "report") =>
        /\ \A k \in Required : Printed(k, fix.dict[k])
        /\ pc = "prompt" \/ Did("input")

\* C5: when the probe answers non-200 or raises, the run has ended with exit
\* status 1, no POST was issued, and the target was neither read nor changed.
C5_UnavailableStops ==
    (Has("GET", "non200") \/ Has("GET", "raise")) =>
        /\ pc = "done"
        /\ exit = 1
        /\ ~Did("POST")
        /\ ~Did("read")
        /\ FilesUntouched

C5_Witness ==
    /\ Has("GET", "non200")
    /\ pc = "done"
    /\ argc = 2

\* C6: an HTTP 200 answer whose content is not parseable or lacks fixed_code
\* never reaches the prompt, touches no file, and ends with exit status 1.
C6_MalformedStops ==
    (/\ Has("POST", "200")
     /\ \/ resp.kind # "object"
        \/ "fixed_code" \notin DOMAIN resp.dict) =>
        /\ pc \in {"report", "done"}
        /\ ~Did("input")
        /\ FilesUntouched
        /\ pc = "done" => exit = 1

C6_Witness ==
    /\ Has("POST", "200")
    /\ resp.kind = "object"
    /\ DOMAIN resp.dict = Fields \ {"fixed_code"}
    /\ pc = "done"

\* C7: the target is opened for writing only after a successful rename; after
\* a failed rename nothing is written, the files are as before the run, and
\* the run has ended with exit status 1.
C7_RenameBeforeWrite ==
    /\ \A i \in DOMAIN trace :
          trace[i].op \in {"open_w", "write"} =>
              \E j \in 1..(i - 1) : trace[j] = Op("rename", "ok")
    /\ Has("rename", "raise") =>
          /\ ~Did("open_w")
          /\ ~Did("write")
          /\ fs = pre
          /\ pc = "done"
          /\ exit = 1

C7_Witness ==
    /\ Has("rename", "raise")
    /\ pc = "done"
    /\ fs[Target] = "c0"

\* C8: a non-200 answer to the POST ends the run with exit status 1 and a
\* message carrying the status code and the body; one POST only, no report,
\* no prompt, no file change.
C8_ApiErrorStops ==
    Has("POST", "non200") =>
        /\ pc = "done"
        /\ exit = 1
        /\ Count("POST") = 1
        /\ stdout # <<>>
        /\ stdout[Len(stdout)].code = resp.status
        /\ stdout[Len(stdout)].val = resp.text
        /\ \A i \in DOMAIN stdout : stdout[i].tag # "label"
        /\ ~Did("input")
        /\ FilesUntouched

C8_Witness ==
    /\ Has("POST", "non200")
    /\ resp.status = 404
    /\ pc = "done"

\* one of the failures the command-line contract lists has occurred
ListedFailure ==
    \/ Has("GET", "non200") \/ Has("GET", "raise")
    \/ argc < 2
    \/ Has("read", "raise")
    \/ Has("POST", "non200") \/ Has("POST", "raise")
    \/ Has("POST", "200") /\ ~ValidResult(resp)
    \/ Has("rename", "raise") \/ Has("open_w", "raise") \/ Has("write", "raise")

\* C9: a finished run has exit status 1 exactly when the server was
\* unavailable, the argument was missing, the file was unreadable, the
\* analysis request failed, the response was malformed, or rename / write
\* failed; without argument or readable file no POST is issued; a completed
\* write or a decline gives exit status 0.
C9_ExitStatus ==
    pc = "done" =>
        /\ exit = 1 <=> ListedFailure
        /\ (argc < 2 \/ Has("read", "raise")) => ~Did("POST")
        /\ (Has("write", "ok") \/ (Has("input", "ok") /\ ~Did("rename"))) => exit = 0

\* C10: throughout a run the content the target had before the run is at the
\* target path or at the backup path, also after a failed write; a backup made
\* in this run together with a target that does not hold fixed_code occurs
\* only after the rename succeeded and while the write has not completed.
C10_OriginalKept ==
    /\ pre[Target] # Absent =>
          \/ fs[Target] = pre[Target]
          \/ backup_filename # NoName /\ fs[backup_filename] = pre[Target]
    /\ (/\ backup_filename # NoName
        /\ pre[backup_filename] = Absent
        /\ fs[backup_filename] # Absent
        /\ fs[Target] # fix.dict["fixed_code"]) =>
          /\ Has("rename", "ok")
          /\ ~Has("write", "ok")
          /\ pc \in {"open", "write", "done"}
          /\ pc = "done" => (Has("open_w", "raise") \/ Has("write", "raise"))

C10_Witness ==
    /\ pc = "done"
    /\ Has("rename", "ok")
    /\ Has("write", "raise")
    /\ fs[Target] = Empty
    /\ fs[backup_filename] = "c0"

====
